---- MODULE Spec2Model ----
(***************************************************************************)
(* Model of the semantic retrieval engine of ai-finance-assistant:         *)
(* FinanceVectorStore (src/src/rag/vector_store.py) and FinanceRetriever   *)
(* (src/src/rag/retriever.py).                                             *)
(*                                                                         *)
(* A text is a sequence of tokens; its length in characters is the sum of  *)
(* the token lengths (white space is a token of its own).  Real numbers    *)
(* are fixed point: a normalized vector has coordinates in units of        *)
(* 1/Unit, an inner-product score is in units of 1/(Unit*Unit).            *)
(***************************************************************************)
EXTENDS Integers, Sequences, FiniteSets, TLC

\* ----- bounds of the model -----
MaxEntries == 2     \* add_documents is only taken while the lists stay this short
MaxK == 2           \* largest k passed to a search
MaxFaults == 1      \* failed writes and damaged artifacts in one behaviour
MaxRestarts == 1    \* process restarts in one behaviour
MaxResults == 6     \* longest ranked list handed to build_context

\* ----- program constants -----
ChunkSize == 500
ChunkOverlap == 50
CpuBatchSize == 8
GpuBatchSize == 32
LengthNorm == 500
KeywordsTaken == 2
SearchOversample == 2
CandidateOversample == 2

\* ----- fixed point -----
Unit == 10
\* the score faiss reports for a missing answer (label -1) is -3.4e38 for an
\* inner-product index; any value below every real score orders the same
PlaceholderScore == 0 - 2 * Unit * Unit
\* common multiple of the source counts 1..10 that divide the diversity bonus
CountLcm == 8 * 9 * 5 * 7

Min(a, b) == IF a <= b THEN a ELSE b

RECURSIVE SeqSum(_)
SeqSum(s) == IF s = <<>> THEN 0 ELSE Head(s) + SeqSum(Tail(s))

RECURSIVE Flatten(_)
Flatten(ss) == IF ss = <<>> THEN <<>> ELSE Head(ss) \o Flatten(Tail(ss))

\* s[:n] of Python, n >= 0
Prefix(s, n) == SubSeq(s, 1, Min(n, Len(s)))

\* ----- texts -----
TokLen(t) ==
  CASE t = "<f480>" -> 480
    [] t = "<f300>" -> 300
    [] t = "<f40>" -> 40
    [] t = "<f294>" -> 294
    [] t = "\n\n" -> 2
    [] t = " " -> 1
    [] t = "stocks" -> 6
    [] t = "Stocks" -> 6
    [] t = "bonds" -> 5
    [] t = "IRA" -> 3
    [] t = "ira" -> 3
    [] t = "401k" -> 4
    [] t = "budget" -> 6
    [] OTHER -> 1

\* len(text)
TextLen(text) == SeqSum([i \in 1..Len(text) |-> TokLen(text[i])])

\* dict.get(key, default)
Get(m, key, default) == IF key \in DOMAIN m THEN m[key] ELSE default

\* ----- the documents handed to add_documents -----
ParaSep == "\n\n"

DocA == [page_content |-> <<"<f480>", " ", "ira", ParaSep, "<f300>", " ", "stocks">>,
         metadata |-> [source |-> "A", category |-> "retirement", doc_id |-> "a",
                       title |-> "Roth IRA basics"]]
DocB == [page_content |-> <<"budget">>,
         metadata |-> [source |-> "B"]]

DocLists == { <<DocA>>, <<DocB>> }

\* documents of 1200, 50 and 600 characters made of words of at most 40
\* characters with single spaces between them, a document of 1200 characters
\* in four paragraphs, and a document of one space
RECURSIVE Repeat(_, _)
Repeat(piece, n) == IF n = 0 THEN <<>> ELSE piece \o Repeat(piece, n - 1)

Words1200 == [page_content |-> Repeat(<<"<f40>", " ">>, 28)
                               \o <<"<f40>", " ", "budget", " ", "401k">>,
              metadata |-> [source |-> "D1"]]
Words50 == [page_content |-> <<"<f40>", " ", "bonds", " ", "ira">>,
            metadata |-> [source |-> "D2"]]
Words600 == [page_content |-> Repeat(<<"<f40>", " ">>, 13)
                              \o <<"<f40>", " ", "budget", " ", "budget", " ",
                                    "budget", " ", "bonds">>,
             metadata |-> [source |-> "D3"]]
Paragraphs1200 == [page_content |-> <<"<f300>", ParaSep, "<f300>", ParaSep,
                                      "<f300>", ParaSep, "<f294>">>,
                   metadata |-> [source |-> "D1"]]
Blank == [page_content |-> <<" ">>, metadata |-> [source |-> "D2"]]

ScenarioDocLists ==
  { <<Words1200, Words50, Words600>>, <<Paragraphs1200, Words50, Words600>>,
    <<Words50>>, <<Blank>> }

\* a short document of the category of DocA from another source
DocC == [page_content |-> <<"budget">>,
         metadata |-> [source |-> "C", category |-> "retirement", doc_id |-> "c"]]

\* ten documents of one chunk each: more chunks than one CPU batch holds
BatchWords == <<"bonds", "ira", "stocks", "IRA", "budget", "401k", "Stocks", "bonds",
                "stocks", "ira">>
BatchDocs ==
  [d \in 1..Len(BatchWords) |->
     [page_content |-> <<BatchWords[d]>>, metadata |-> [source |-> "B", doc_id |-> d]]]

\* a document for whose text the embedding provider returns the zero vector
ZeroText == <<"<pad>">>
DocZ == [page_content |-> ZeroText, metadata |-> [source |-> "Z"]]

\* ----- RecursiveCharacterTextSplitter (langchain), at token granularity -----
\* the separators of the splitter that are tokens of the model's texts; a
\* text without any of them is at most ChunkSize long in this model, and the
\* character-level split the splitter then makes returns it whole
Separators == <<ParaSep, " ">>

IsSpace(t) == t \in {ParaSep, " "}

\* str.strip()
RECURSIVE Strip(_)
Strip(text) ==
  IF text = <<>> THEN text
  ELSE IF IsSpace(Head(text)) THEN Strip(Tail(text))
  ELSE IF IsSpace(text[Len(text)]) THEN Strip(SubSeq(text, 1, Len(text) - 1))
  ELSE text

\* _split_text_with_regex with keep_separator: every piece after the first
\* starts with the separator it was cut at; empty pieces are removed
RECURSIVE SplitKeep(_, _, _)
SplitKeep(text, sep, i) ==
  IF i > Len(text) THEN <<>>
  ELSE LET nexts == {n \in (i + 1)..Len(text) : text[n] = sep} \cup {Len(text) + 1}
           j == CHOOSE n \in nexts : \A m \in nexts : n <= m
       IN <<SubSeq(text, i, j - 1)>> \o SplitKeep(text, sep, j)

\* the while loop of _merge_splits that drops pieces from the front of
\* current_doc (the separator is "" when separators are kept: length 0)
RECURSIVE MergeShrink(_, _, _)
MergeShrink(cur, total, l) ==
  IF cur # <<>> /\ (total > ChunkOverlap \/ (total + l > ChunkSize /\ total > 0))
  THEN MergeShrink(Tail(cur), total - TextLen(Head(cur)), l)
  ELSE <<cur, total>>

JoinDocs(cur) == LET t == Strip(Flatten(cur)) IN IF t = <<>> THEN <<>> ELSE <<t>>

\* _merge_splits
RECURSIVE MergeSplits(_, _, _)
MergeSplits(splits, cur, total) ==
  IF splits = <<>> THEN JoinDocs(cur)
  ELSE LET d == Head(splits)
           l == TextLen(d)
       IN IF total + l > ChunkSize /\ cur # <<>>
          THEN LET sh == MergeShrink(cur, total, l)
               IN JoinDocs(cur) \o MergeSplits(Tail(splits), Append(sh[1], d), sh[2] + l)
          ELSE MergeSplits(Tail(splits), Append(cur, d), total + l)

\* _split_text
RECURSIVE split_text(_, _)
RECURSIVE SplitPieces(_, _, _)
SplitPieces(splits, good, newseps) ==
  IF splits = <<>> THEN (IF good # <<>> THEN MergeSplits(good, <<>>, 0) ELSE <<>>)
  ELSE LET s == Head(splits)
       IN IF TextLen(s) < ChunkSize
          THEN SplitPieces(Tail(splits), Append(good, s), newseps)
          ELSE (IF good # <<>> THEN MergeSplits(good, <<>>, 0) ELSE <<>>)
               \o (IF newseps = <<>> THEN <<s>> ELSE split_text(s, newseps))
               \o SplitPieces(Tail(splits), <<>>, newseps)

split_text(text, seps) ==
  LET present == {i \in 1..Len(seps) : \E n \in 1..Len(text) : text[n] = seps[i]}
  IN IF present = {} THEN (IF text = <<>> THEN <<>> ELSE <<text>>)
     ELSE LET si == CHOOSE i \in present : \A m \in present : i <= m
          IN SplitPieces(SplitKeep(text, seps[si], 1), <<>>,
                         SubSeq(seps, si + 1, Len(seps)))

\* add_documents, lines 117-130: the chunks of the documents and the
\* metadata synthesized for each chunk
DocChunkMeta(doc, i) ==
  [source |-> Get(doc.metadata, "source", "unknown"),
   category |-> Get(doc.metadata, "category", "general"),
   chunk_id |-> <<Get(doc.metadata, "source", "unknown"), i - 1>>,
   original_doc_id |-> Get(doc.metadata, "doc_id", "unknown")]

\* variant of DocChunks: the document is stored whole
DocChunksWhole(doc) == <<doc.page_content>>

DocChunks(doc) == split_text(doc.page_content, Separators)

Chunks(docs) == Flatten([d \in 1..Len(docs) |-> DocChunks(docs[d])])

ChunkMetadata(docs) ==
  Flatten([d \in 1..Len(docs) |->
             [i \in 1..Len(DocChunks(docs[d])) |-> DocChunkMeta(docs[d], i)]])

\* ----- the embedding provider -----
\* two embedding models of different dimension; what a model returns for a
\* text is a fixed function of the text (order of the tokens included)
Models == {"m2", "m3"}

Dimension(model) == IF model = "m2" THEN 2 ELSE 3

\* hasattr(self.embeddings, 'device') and the device of the model
Device(model) == IF model = "m2" THEN "cpu" ELSE "mps"

TokCode(t) ==
  CASE t = "ira" -> 2
    [] t = "IRA" -> 4
    [] t = "stocks" -> 3
    [] t = "Stocks" -> 4
    [] t = "bonds" -> 1
    [] t = "401k" -> 1
    [] t = "budget" -> 2
    [] OTHER -> 0

RawVectors == << <<10, 0>>, <<3, 4>>, <<8, 6>>, <<0, 5>>, <<0 - 3, 4>> >>

TextCode(text) == SeqSum([i \in 1..Len(text) |-> i * TokCode(text[i])]) % Len(RawVectors)

\* embed_query(text) and one row of embed_documents(texts)
Embed(model, text) ==
  LET v == IF text = ZeroText THEN <<0, 0>> ELSE RawVectors[TextCode(text) + 1]
  IN IF Dimension(model) = 2 THEN v ELSE v \o <<0>>

\* ----- faiss -----
ISqrt(n) == CHOOSE r \in 0..n : r * r <= n /\ (r + 1) * (r + 1) > n

\* faiss.normalize_L2 on one row: a row of norm 0 is left as it is
normalize_L2(v) ==
  LET norm == ISqrt(SeqSum([i \in 1..Len(v) |-> v[i] * v[i]]))
  IN IF norm = 0 THEN v ELSE [i \in 1..Len(v) |-> (v[i] * Unit) \div norm]

Dot(u, v) == SeqSum([i \in 1..Len(u) |-> u[i] * v[i]])

NoIndex == [isNone |-> TRUE, d |-> 0, vecs |-> <<>>]

\* faiss.IndexFlatIP(dimension)
IndexFlatIP(dimension) == [isNone |-> FALSE, d |-> dimension, vecs |-> <<>>]

\* the labels 0..ntotal-1 of the index by decreasing inner product with qv,
\* equal scores by increasing label
RECURSIVE RankLabels(_, _, _)
RankLabels(ix, qv, labels) ==
  IF labels = {} THEN <<>>
  ELSE LET best == CHOOSE i \in labels : \A j \in labels :
                     \/ Dot(ix.vecs[i + 1], qv) > Dot(ix.vecs[j + 1], qv)
                     \/ Dot(ix.vecs[i + 1], qv) = Dot(ix.vecs[j + 1], qv) /\ i <= j
       IN <<best>> \o RankLabels(ix, qv, labels \ {best})

\* index.search(query_vector, n) for a query of the index's dimension: n
\* (score, label) pairs, the missing ones filled with label -1
IndexSearch(ix, qv, n) ==
  LET ranked == RankLabels(ix, qv, 0..(Len(ix.vecs) - 1))
  IN [p \in 1..n |->
        IF p <= Len(ranked)
        THEN [score |-> Dot(ix.vecs[ranked[p] + 1], qv), idx |-> ranked[p]]
        ELSE [score |-> PlaceholderScore, idx |-> 0 - 1]]

\* ----- Python lists -----
\* list[i] raises IndexError outside -len..len-1
InRange(list, i) == 0 - Len(list) <= i /\ i < Len(list)
PyIndex(list, i) == IF i >= 0 THEN list[i + 1] ELSE list[Len(list) + i + 1]

\* ----- outcomes of a call -----
Returned(v) == [raised |-> FALSE, error |-> "", value |-> v]
Raised(e) == [raised |-> TRUE, error |-> e, value |-> <<>>]

\* category_filter=None
NoFilter == "<None>"
\* truth value of category_filter in "if category_filter and ..."
Truthy(filter) == filter # NoFilter /\ filter # ""

\* ----- FinanceVectorStore.similarity_search -----
\* the loop over zip(scores[0], indices[0]), from position p with the
\* results collected so far
RECURSIVE SearchLoop(_, _, _, _, _, _, _)
SearchLoop(docs, meta, hits, p, k, filter, results) ==
  IF p > Len(hits) THEN Returned(results)
  ELSE LET idx == hits[p].idx
       IN IF idx >= Len(docs)
          THEN SearchLoop(docs, meta, hits, p + 1, k, filter, results)
          ELSE IF ~InRange(meta, idx) THEN Raised("IndexError")
          ELSE LET m == PyIndex(meta, idx)
               IN IF Truthy(filter) /\ m.category # filter
                  THEN SearchLoop(docs, meta, hits, p + 1, k, filter, results)
                  ELSE IF ~InRange(docs, idx) THEN Raised("IndexError")
                  ELSE LET r == [content |-> PyIndex(docs, idx),
                                 score |-> hits[p].score,
                                 metadata |-> m,
                                 source |-> m.source]
                           results2 == Append(results, r)
                       IN IF Len(results2) >= k THEN Returned(results2)
                          ELSE SearchLoop(docs, meta, hits, p + 1, k, filter, results2)

\* variant of similarity_search without the early return for an unset index
similarity_search_unguarded(ix, docs, meta, model, query, k, filter) ==
  LET query_vector == normalize_L2(Embed(model, query))
  IN IF Len(query_vector) # ix.d THEN Raised("AssertionError")
     ELSE SearchLoop(docs, meta, IndexSearch(ix, query_vector, k * SearchOversample),
                     1, k, filter, <<>>)

similarity_search(ix, docs, meta, model, query, k, filter) ==
  IF ix.isNone THEN Returned(<<>>)
  ELSE LET query_vector == normalize_L2(Embed(model, query))
       IN IF Len(query_vector) # ix.d THEN Raised("AssertionError")
          ELSE SearchLoop(docs, meta, IndexSearch(ix, query_vector, k * SearchOversample),
                          1, k, filter, <<>>)

\* ----- FinanceRetriever -----
\* self.domain_keywords, in the order of the dict
domain_keywords ==
  << [category |-> "investment",
      keywords |-> << <<"stocks">>, <<"bonds">>, <<"ETFs">>,
                      <<"mutual", " ", "funds">>, <<"portfolio">> >>],
     [category |-> "retirement",
      keywords |-> << <<"401k">>, <<"IRA">>, <<"pension">>,
                      <<"social", " ", "security">> >>],
     [category |-> "risk",
      keywords |-> << <<"volatility">>, <<"diversification">>,
                      <<"asset", " ", "allocation">> >>],
     [category |-> "analysis",
      keywords |-> << <<"valuation">>, <<"ratios">>, <<"performance">>,
                      <<"metrics">> >>] >>

\* str.lower() on one token
LowerTok(t) ==
  CASE t = "IRA" -> "ira"
    [] t = "Stocks" -> "stocks"
    [] t = "ETFs" -> "etfs"
    [] OTHER -> t

Lower(text) == [i \in 1..Len(text) |-> LowerTok(text[i])]

\* keyword in query_lower
InText(keyword, text) ==
  \E i \in 1..Len(text) :
    i + Len(keyword) - 1 <= Len(text) /\ SubSeq(text, i, i + Len(keyword) - 1) = keyword

RECURSIVE Reverse(_)
Reverse(s) == IF s = <<>> THEN <<>> ELSE Append(Reverse(Tail(s)), Head(s))

RECURSIVE Dedup(_)
Dedup(s) ==
  IF s = <<>> THEN <<>>
  ELSE LET rest == Dedup(SubSeq(s, 1, Len(s) - 1))
       IN IF \E i \in 1..Len(rest) : rest[i] = s[Len(s)] THEN rest
          ELSE Append(rest, s[Len(s)])

\* the iteration order of set(enhanced_terms): it depends on the string
\* hashes, which are seeded per process
HashSeeds == {0, 1}
SetOrder(terms, seed) == IF seed = 0 THEN Dedup(terms) ELSE Reverse(Dedup(terms))

\* ' '.join(terms)
RECURSIVE JoinSpace(_)
JoinSpace(terms) ==
  IF terms = <<>> THEN <<>>
  ELSE IF Len(terms) = 1 THEN terms[1]
  ELSE terms[1] \o <<" ">> \o JoinSpace(Tail(terms))

\* the loop over self.domain_keywords.items()
RECURSIVE EnhancedTerms(_, _)
EnhancedTerms(query_lower, g) ==
  IF g > Len(domain_keywords) THEN <<>>
  ELSE LET keywords == domain_keywords[g].keywords
       IN (IF \E i \in 1..Len(keywords) : InText(keywords[i], query_lower)
           THEN Prefix(keywords, KeywordsTaken) ELSE <<>>)
          \o EnhancedTerms(query_lower, g + 1)

_enhance_query(query, seed) ==
  LET enhanced_terms == EnhancedTerms(Lower(query), 1)
  IN IF enhanced_terms # <<>>
     THEN query \o <<" ">> \o JoinSpace(SetOrder(enhanced_terms, seed))
     ELSE query

\* the rerank score, in units of 1/CompositeScale
CompositeScale == 10 * Unit * Unit * LengthNorm * CountLcm

\* source_counts[source] after the candidate at position p was counted
SourceCount(candidates, p) ==
  Cardinality({q \in 1..p : candidates[q].metadata.source = candidates[p].metadata.source})

\* variant of FinalScore: the diversity bonus divides by the number of
\* candidates of the source in the whole list
FinalScoreTotalCount(candidates, p) ==
  7 * candidates[p].score * LengthNorm * CountLcm
  + 2 * Unit * Unit * LengthNorm
      * (CountLcm \div Cardinality({q \in 1..Len(candidates) :
                     candidates[q].metadata.source = candidates[p].metadata.source}))
  + Unit * Unit * CountLcm * Min(TextLen(candidates[p].content), LengthNorm)

\* variant of FinalScore without the diversity bonus
FinalScoreNoDiversity(candidates, p) ==
  7 * candidates[p].score * LengthNorm * CountLcm
  + Unit * Unit * CountLcm * Min(TextLen(candidates[p].content), LengthNorm)

\* similarity_score * 0.7 + diversity_bonus * 0.2 + content_length_score * 0.1
FinalScore(candidates, p) ==
  7 * candidates[p].score * LengthNorm * CountLcm
  + 2 * Unit * Unit * LengthNorm * (CountLcm \div SourceCount(candidates, p))
  + Unit * Unit * CountLcm * Min(TextLen(candidates[p].content), LengthNorm)

\* list.sort(key=rerank_score, reverse=True): stable, equal keys keep their order
RECURSIVE SortByRerank(_, _)
SortByRerank(scored, positions) ==
  IF positions = {} THEN <<>>
  ELSE LET best == CHOOSE i \in positions : \A j \in positions :
                     \/ scored[i].rerank_score > scored[j].rerank_score
                     \/ scored[i].rerank_score = scored[j].rerank_score /\ i <= j
       IN <<scored[best]>> \o SortByRerank(scored, positions \ {best})

ScoredCandidates(candidates) ==
  [p \in 1..Len(candidates) |->
     [content |-> candidates[p].content,
      score |-> candidates[p].score,
      metadata |-> candidates[p].metadata,
      source |-> candidates[p].source,
      rerank_score |-> FinalScore(candidates, p)]]

_rerank_results(candidates, k) ==
  IF candidates = <<>> THEN <<>>
  ELSE LET scored == ScoredCandidates(candidates)
       IN Prefix(SortByRerank(scored, 1..Len(scored)), k)

\* lines 39-43 of retrieve: the text that is embedded
enhanced_query(query, enhance, seed) ==
  IF enhance THEN _enhance_query(query, seed) ELSE query

retrieve(ix, docs, meta, model, seed, query, k, enhance) ==
  LET candidates == similarity_search(ix, docs, meta, model,
                                      enhanced_query(query, enhance, seed),
                                      k * CandidateOversample, NoFilter)
  IN IF candidates.raised THEN candidates
     ELSE Returned(_rerank_results(candidates.value, k))

retrieve_by_category(ix, docs, meta, model, query, category, k) ==
  similarity_search(ix, docs, meta, model, query, k, category)

\* ----- FinanceRetriever.build_context -----
\* the returned string is "\n".join(context_parts); a context is modelled as
\* the sequence of its parts.  A part is literal text, or a source tag with
\* the three values the f-string of line 90 formats.
MaxChunks == 5
MinContentLength == 50
FallbackChunks == 2

NothingFoundSentence == "No relevant information found in knowledge base."
BasedOnPrefix == "Based on the following information relevant to: '"
AvailableHeading == "\n[Available Information]"
CiteInstruction ==
  "\nPlease provide a comprehensive answer based on this information, citing the relevant sources."

TextPart(text) == [kind |-> "text", text |-> text, n |-> 0, source |-> "", score |-> 0]

\* f"{score:.3f}": the score in thousandths, rounded
Format3f(score) == (2000 * score + Unit * Unit) \div (2 * Unit * Unit)

\* f"\n[Source {n}: {source} - Relevance: {score:.3f}]"
SourceTag(n, source, score) ==
  [kind |-> "tag", text |-> <<>>, n |-> n, source |-> source, score |-> Format3f(score)]

\* variant of ContextLoop: the tag carries the position in retrieved_docs
\* (enumerate's i + 1) instead of the number of included passages
RECURSIVE ContextLoopEnumerated(_, _, _)
ContextLoopEnumerated(retrieved_docs, p, included_count) ==
  IF p > Len(retrieved_docs) \/ included_count >= MaxChunks THEN <<>>
  ELSE LET doc == retrieved_docs[p]
       IN IF TextLen(doc.content) < MinContentLength
          THEN ContextLoopEnumerated(retrieved_docs, p + 1, included_count)
          ELSE << SourceTag(p, doc.metadata.source, doc.score), TextPart(doc.content) >>
               \o ContextLoopEnumerated(retrieved_docs, p + 1, included_count + 1)

\* the loop of lines 77-92, from position p of retrieved_docs
RECURSIVE ContextLoop(_, _, _)
ContextLoop(retrieved_docs, p, included_count) ==
  IF p > Len(retrieved_docs) \/ included_count >= MaxChunks THEN <<>>
  ELSE LET doc == retrieved_docs[p]
       IN IF TextLen(doc.content) < MinContentLength
          THEN ContextLoop(retrieved_docs, p + 1, included_count)
          ELSE << SourceTag(included_count + 1, doc.metadata.source, doc.score),
                  TextPart(doc.content) >>
               \o ContextLoop(retrieved_docs, p + 1, included_count + 1)

\* variant of Fallback: every result is appended, not only the first two
FallbackAll(retrieved_docs) ==
  <<TextPart(<<AvailableHeading>>)>>
  \o [i \in 1..Len(retrieved_docs) |-> TextPart(retrieved_docs[i].content)]

\* lines 95-98: the fallback when nothing was included
Fallback(retrieved_docs) ==
  <<TextPart(<<AvailableHeading>>)>>
  \o [i \in 1..Min(FallbackChunks, Len(retrieved_docs)) |->
        TextPart(retrieved_docs[i].content)]

build_context(query, retrieved_docs) ==
  IF retrieved_docs = <<>> THEN <<TextPart(<<NothingFoundSentence>>)>>
  ELSE LET included == ContextLoop(retrieved_docs, 1, 0)
       IN <<TextPart(<<BasedOnPrefix>> \o query \o <<"'\n">>)>>
          \o included
          \o (IF included = <<>> THEN Fallback(retrieved_docs) ELSE <<>>)
          \o <<TextPart(<<CiteInstruction>>)>>

\* ----- persistence -----
\* an artifact on disk: missing, unreadable, or a serialized value
Missing == [st |-> "missing", data |-> <<>>]
Corrupt == [st |-> "corrupt", data |-> <<>>]

\* faiss.write_index: the dimension, the vector count and the coordinates of
\* all vectors as one flat array
write_index(ix) ==
  [st |-> "ok", data |-> [d |-> ix.d, ntotal |-> Len(ix.vecs), codes |-> Flatten(ix.vecs)]]

\* faiss.read_index
read_index(artifact) ==
  LET f == artifact.data
  IN [isNone |-> FALSE, d |-> f.d,
      vecs |-> [n \in 1..f.ntotal |-> SubSeq(f.codes, (n - 1) * f.d + 1, n * f.d)]]

\* pickle.dump / pickle.load of a list
pickle_dump(list) == [st |-> "ok", data |-> [length |-> Len(list), items |-> list]]
pickle_load(artifact) == SubSeq(artifact.data.items, 1, artifact.data.length)

\* _save_index writes the artifacts in this order
Artifacts == <<"faiss", "docs", "meta">>

\* the outcome of one _save_index: `failAt` is the step that raises (0: none;
\* 1: os.makedirs or the write of the first artifact, ... 3: the write of the
\* third); the artifacts written before it are new, the others keep their
\* old content
SaveOutcomes == {[failAt |-> n] : n \in 0..3}

SaveOne(old, new, n, outcome) ==
  IF outcome.failAt = 0 \/ n < outcome.failAt THEN new ELSE old

\* variant of _save_index: the metadata artifact is not written
_save_index_no_metadata(dsk, ix, docs, meta, outcome) ==
  [faiss |-> IF ix.isNone THEN dsk.faiss
             ELSE SaveOne(dsk.faiss, write_index(ix), 1, outcome),
   docs |-> SaveOne(dsk.docs, pickle_dump(docs), 2, outcome),
   meta |-> dsk.meta]

_save_index(dsk, ix, docs, meta, outcome) ==
  [faiss |-> IF ix.isNone THEN dsk.faiss
             ELSE SaveOne(dsk.faiss, write_index(ix), 1, outcome),
   docs |-> SaveOne(dsk.docs, pickle_dump(docs), 2, outcome),
   meta |-> SaveOne(dsk.meta, pickle_dump(meta), 3, outcome)]

EmptyStore == [index |-> NoIndex, documents |-> <<>>, metadata |-> <<>>]

\* _load_index on a store that __init__ has just set to empty
_load_index(dsk) ==
  IF \/ dsk.faiss.st = "corrupt"
     \/ dsk.docs.st = "corrupt"
     \/ dsk.meta.st = "corrupt"
  THEN EmptyStore
  ELSE [index |-> IF dsk.faiss.st = "ok" THEN read_index(dsk.faiss) ELSE NoIndex,
        documents |-> IF dsk.docs.st = "ok" THEN pickle_load(dsk.docs) ELSE <<>>,
        metadata |-> IF dsk.meta.st = "ok" THEN pickle_load(dsk.meta) ELSE <<>>]

\* ----- FinanceVectorStore.add_documents -----
BatchSize(model) == IF Device(model) # "cpu" THEN GpuBatchSize ELSE CpuBatchSize

\* variant of EmbedOneByOne: the first single-item call that raises ends the
\* retry of the batch
RECURSIVE EmbedOneByOneStop(_, _, _, _, _)
EmbedOneByOneStop(model, chunks, p, last, failItem) ==
  IF p > last \/ p \in failItem THEN <<>>
  ELSE <<Embed(model, chunks[p])>> \o EmbedOneByOneStop(model, chunks, p + 1, last, failItem)

\* the inner loop "for chunk in batch_chunks" after a failed batch call:
\* positions p..last of the chunks, one embed_documents([chunk]) each
RECURSIVE EmbedOneByOne(_, _, _, _, _)
EmbedOneByOne(model, chunks, p, last, failItem) ==
  IF p > last THEN <<>>
  ELSE (IF p \in failItem THEN <<>> ELSE <<Embed(model, chunks[p])>>)
       \o EmbedOneByOne(model, chunks, p + 1, last, failItem)

\* the loop "for i in range(0, len(chunks), batch_size)": the embed_documents
\* call for batch number b raises iff b \in failBatch, the single-item call
\* for the chunk at position p raises iff p \in failItem
RECURSIVE EmbedBatches(_, _, _, _, _)
EmbedBatches(model, chunks, i, failBatch, failItem) ==
  IF i >= Len(chunks) THEN <<>>
  ELSE LET bs == BatchSize(model)
           last == Min(i + bs, Len(chunks))
       IN (IF (i \div bs) \in failBatch
           THEN EmbedOneByOne(model, chunks, i + 1, last, failItem)
           ELSE [p \in 1..(last - i) |-> Embed(model, chunks[i + p])])
          \o EmbedBatches(model, chunks, i + bs, failBatch, failItem)

\* the embed_documents calls of the same loop in the order they are made,
\* each as the chunk positions it is given: one call per batch and, after a
\* batch call that raised, one call per chunk of that batch
RECURSIVE EmbedCalls(_, _, _, _)
EmbedCalls(model, n, i, failBatch) ==
  IF i >= n THEN <<>>
  ELSE LET bs == BatchSize(model)
           last == Min(i + bs, n)
       IN << [p \in 1..(last - i) |-> i + p] >>
          \o (IF (i \div bs) \in failBatch
              THEN [p \in 1..(last - i) |-> <<i + p>>]
              ELSE <<>>)
          \o EmbedCalls(model, n, i + bs, failBatch)

\* variant of StoredFor: every chunk is stored, whether or not it was embedded
StoredForAll(list, n) == list

\* lines 179-180: the chunks (or metadata) stored for n embeddings
StoredFor(list, n) == Prefix(list, n)

\* variant of add_documents: the lists are extended before index.add checks
\* the dimension of the new rows
add_documents_listsfirst(ix, docs, meta, model, newdocs, failBatch, failItem) ==
  LET chunks == Chunks(newdocs)
      chunk_metadata == ChunkMetadata(newdocs)
      all_embeddings == EmbedBatches(model, chunks, 0, failBatch, failItem)
      n == Len(all_embeddings)
      unchanged == [index |-> ix, documents |-> docs, metadata |-> meta,
                    produced |-> n, raised |-> FALSE, error |-> "", saves |-> FALSE]
  IN IF n = 0 THEN unchanged
     ELSE LET ix1 == IF ix.isNone THEN IndexFlatIP(Len(all_embeddings[1])) ELSE ix
              rows == [p \in 1..n |-> normalize_L2(all_embeddings[p])]
              extended == [unchanged EXCEPT !.documents = docs \o StoredFor(chunks, n),
                                            !.metadata = meta \o StoredFor(chunk_metadata, n)]
          IN IF \E p \in 1..n : Len(rows[p]) # ix1.d
             THEN [extended EXCEPT !.index = ix1, !.raised = TRUE,
                                   !.error = "AssertionError"]
             ELSE [extended EXCEPT !.index = [ix1 EXCEPT !.vecs = ix1.vecs \o rows],
                                   !.saves = TRUE]

\* add_documents up to the call of _save_index: the new index and lists, the
\* number of embeddings produced, whether the call raised and whether it
\* reached _save_index
add_documents(ix, docs, meta, model, newdocs, failBatch, failItem) ==
  LET chunks == Chunks(newdocs)
      chunk_metadata == ChunkMetadata(newdocs)
      all_embeddings == EmbedBatches(model, chunks, 0, failBatch, failItem)
      n == Len(all_embeddings)
      unchanged == [index |-> ix, documents |-> docs, metadata |-> meta,
                    produced |-> n, raised |-> FALSE, error |-> "", saves |-> FALSE]
  IN IF n = 0 THEN unchanged
     ELSE LET ix1 == IF ix.isNone THEN IndexFlatIP(Len(all_embeddings[1])) ELSE ix
              rows == [p \in 1..n |-> normalize_L2(all_embeddings[p])]
          IN IF \E p \in 1..n : Len(rows[p]) # ix1.d
             THEN [unchanged EXCEPT !.index = ix1, !.raised = TRUE,
                                    !.error = "AssertionError"]
             ELSE [index |-> [ix1 EXCEPT !.vecs = ix1.vecs \o rows],
                   documents |-> docs \o StoredFor(chunks, n),
                   metadata |-> meta \o StoredFor(chunk_metadata, n),
                   produced |-> n, raised |-> FALSE, error |-> "", saves |-> TRUE]

\* ----- the state -----
VARIABLES
  index,        \* self.index: NoIndex for None, else dimension and vectors
  documents,    \* self.documents: the chunk texts
  metadata,     \* self.metadata: the chunk metadata
  embeddings,   \* the embedding model of this store instance
  hashSeed,     \* the string hash seed of the running process
  disk,         \* the three artifacts at index_path
  ret,          \* the last call: operation, arguments and outcome
  faults,       \* failed writes and damaged artifacts so far
  restarts,     \* processes started after the first
  adding        \* the add_documents call a second thread is executing

vars == <<index, documents, metadata, embeddings, hashSeed, disk, ret, faults, restarts,
          adding>>

store == <<index, documents, metadata>>

Queries == { <<"stocks">>, <<"budget">> }
Categories == {"retirement", ""}
Ks == 1..MaxK

NoArgs == [query |-> <<>>, k |-> 0, filter |-> NoFilter, enhance |-> FALSE]

ArtifactNames == {"faiss", "docs", "meta"}

\* what _load_index found at index_path: the state and length of each artifact
Seen(dsk) ==
  [st |-> [a \in ArtifactNames |-> dsk[a].st],
   len |-> [a \in ArtifactNames |->
              IF dsk[a].st # "ok" THEN 0
              ELSE IF a = "faiss" THEN dsk[a].data.ntotal ELSE dsk[a].data.length]]

\* the `seen` field of a call that is not a construction
NoneSeen == [st |-> [a \in ArtifactNames |-> "missing"], len |-> [a \in ArtifactNames |-> 0]]

\* no add_documents call is in progress in another thread
NoAdd == [pc |-> "idle", r |-> <<>>, chunks |-> 0]

\* a store constructed by a fresh process where nothing has been persisted
Init ==
  /\ index = NoIndex
  /\ documents = <<>>
  /\ metadata = <<>>
  /\ embeddings = "m2"
  /\ hashSeed = 0
  /\ disk = [faiss |-> Missing, docs |-> Missing, meta |-> Missing]
  /\ ret = [op |-> "construct", args |-> NoArgs, raised |-> FALSE, error |-> "",
            value |-> <<>>, chunks |-> 0, produced |-> 0, seen |-> Seen(disk)]
  /\ faults = 0
  /\ restarts = 0
  /\ adding = NoAdd

\* FinanceVectorStore.__init__ in a new process: the fields are reset and
\* _load_index reads the artifacts
Construct(model, seed) ==
  /\ restarts < MaxRestarts
  /\ restarts' = restarts + 1
  /\ \E st \in {_load_index(disk)} :
       /\ index' = st.index
       /\ documents' = st.documents
       /\ metadata' = st.metadata
  /\ embeddings' = model
  /\ hashSeed' = seed
  /\ ret' = [op |-> "construct", args |-> NoArgs, raised |-> FALSE, error |-> "",
             value |-> <<>>, chunks |-> 0, produced |-> 0, seen |-> Seen(disk)]
  /\ UNCHANGED <<disk, faults, adding>>

\* FinanceVectorStore.add_documents(newdocs), with the embedding calls that
\* fail and the outcome of the writes of _save_index
AddDocumentsCall(newdocs, failBatch, failItem, outcome, args) ==
  /\ adding.pc = "idle"
  /\ \E r \in {add_documents(index, documents, metadata, embeddings,
                             newdocs, failBatch, failItem)} :
       /\ outcome.failAt # 0 => r.saves /\ faults < MaxFaults
       /\ index' = r.index
       /\ documents' = r.documents
       /\ metadata' = r.metadata
       /\ disk' = IF r.saves
                  THEN _save_index(disk, r.index, r.documents, r.metadata, outcome)
                  ELSE disk
       /\ faults' = IF outcome.failAt # 0 THEN faults + 1 ELSE faults
       /\ ret' = [op |-> "add_documents", args |-> args,
                  raised |-> r.raised \/ outcome.failAt # 0,
                  error |-> IF r.raised THEN r.error
                            ELSE IF outcome.failAt # 0 THEN "OSError" ELSE "",
                  value |-> <<>>, chunks |-> Len(Chunks(newdocs)),
                  produced |-> r.produced, seen |-> NoneSeen]
  /\ UNCHANGED <<embeddings, hashSeed, restarts, adding>>

\* build_vector_database(embedding_model, index_path) in a new process, for
\* a knowledge base that holds articles: FinanceVectorStore(...) loads what
\* is at index_path, add_documents adds the documents of the articles, and
\* an exception of either makes the function return False.  The retrieval
\* test that follows only reads the store and its exceptions are caught.
BuildVectorDatabase(articles, model, seed, failBatch, failItem, outcome) ==
  /\ adding.pc = "idle"
  /\ restarts <= MaxRestarts
  /\ restarts' = restarts + 1
  /\ embeddings' = model
  /\ hashSeed' = seed
  /\ \E st \in {_load_index(disk)} :
       \E r \in {add_documents(st.index, st.documents, st.metadata, model,
                               articles, failBatch, failItem)} :
         /\ outcome.failAt # 0 => r.saves /\ faults < MaxFaults
         /\ index' = r.index
         /\ documents' = r.documents
         /\ metadata' = r.metadata
         /\ disk' = IF r.saves
                    THEN _save_index(disk, r.index, r.documents, r.metadata, outcome)
                    ELSE disk
         /\ faults' = IF outcome.failAt # 0 THEN faults + 1 ELSE faults
         /\ ret' = [op |-> "build_vector_database",
                    args |-> NoArgs @@ [docs |-> articles, failBatch |-> failBatch,
                                        failItem |-> failItem, outcome |-> outcome],
                    raised |-> FALSE, error |-> "",
                    value |-> ~(r.raised \/ outcome.failAt # 0),
                    chunks |-> Len(Chunks(articles)), produced |-> r.produced,
                    seen |-> Seen(disk)]
  /\ UNCHANGED adding

\* add_documents while the lists stay within the bound of the model
AddDocuments(newdocs, failBatch, failItem, outcome) ==
  /\ Len(documents) + Len(Chunks(newdocs)) <= MaxEntries
  /\ Len(index.vecs) + Len(Chunks(newdocs)) <= MaxEntries
  /\ AddDocumentsCall(newdocs, failBatch, failItem, outcome, NoArgs)

\* an artifact is deleted or damaged from outside the process
DamageArtifact(a, how) ==
  /\ faults < MaxFaults
  /\ disk[a].st = "ok"
  /\ disk' = [disk EXCEPT ![a] = how]
  /\ faults' = faults + 1
  /\ UNCHANGED <<index, documents, metadata, embeddings, hashSeed, ret, restarts, adding>>

\* variant of StoreAfterRead: the documents list comes back in reverse order
StoreAfterReadReversed(ix, docs, meta) ==
  [index |-> ix, documents |-> Reverse(docs), metadata |-> meta]

\* the store after similarity_search, retrieve, retrieve_by_category or
\* build_context: none of them assigns self.index, self.documents or
\* self.metadata, index.search reads the index, and the result dicts and the
\* {**candidate, ...} copies of _rerank_results are new objects
StoreAfterRead(ix, docs, meta) ==
  [index |-> ix, documents |-> docs, metadata |-> meta]

\* the store fields after a call that only reads them
ReadsStore ==
  \E after \in {StoreAfterRead(index, documents, metadata)} :
    /\ index' = after.index
    /\ documents' = after.documents
    /\ metadata' = after.metadata

Called(op, args, r) ==
  [op |-> op, args |-> args, raised |-> r.raised, error |-> r.error,
   value |-> r.value, chunks |-> 0, produced |-> 0, seen |-> NoneSeen]

\* FinanceVectorStore.similarity_search(query, k, category_filter)
SimilaritySearch(query, k, filter) ==
  /\ ret' = Called("similarity_search",
                   [query |-> query, k |-> k, filter |-> filter, enhance |-> FALSE],
                   similarity_search(index, documents, metadata, embeddings,
                                     query, k, filter))
  /\ ReadsStore
  /\ UNCHANGED <<embeddings, hashSeed, disk, faults, restarts, adding>>

\* FinanceRetriever.retrieve(query, k, enhance_query)
Retrieve(query, k, enhance) ==
  /\ ret' = Called("retrieve",
                   [query |-> query, k |-> k, filter |-> NoFilter, enhance |-> enhance],
                   retrieve(index, documents, metadata, embeddings, hashSeed,
                            query, k, enhance))
  /\ ReadsStore
  /\ UNCHANGED <<embeddings, hashSeed, disk, faults, restarts, adding>>

\* the first step of retrieve(query, k, enhance_query): the text handed to
\* similarity_search
EnhanceQuery(query, enhance) ==
  /\ ret' = Called("enhanced_query",
                   [query |-> query, k |-> 0, filter |-> NoFilter, enhance |-> enhance],
                   Returned(enhanced_query(query, enhance, hashSeed)))
  /\ UNCHANGED <<index, documents, metadata, embeddings, hashSeed, disk, faults, restarts,
                 adding>>

\* FinanceRetriever.retrieve_by_category(query, category, k)
RetrieveByCategory(query, category, k) ==
  /\ ret' = Called("retrieve_by_category",
                   [query |-> query, k |-> k, filter |-> category, enhance |-> FALSE],
                   retrieve_by_category(index, documents, metadata, embeddings,
                                        query, category, k))
  /\ ReadsStore
  /\ UNCHANGED <<embeddings, hashSeed, disk, faults, restarts, adding>>

\* ----- FinanceQAAgent._build_context -----
GeneralResponseInstruction ==
  "Please provide a general response based on your training data and include appropriate disclaimers."

\* "\n".join(f"Previous: {item}" for item in conversation_history[-2:])
RecentContext(conversation_history) ==
  LET n == Len(conversation_history)
      recent == SubSeq(conversation_history, IF n > 2 THEN n - 1 ELSE 1, n)
  IN Flatten([i \in 1..Len(recent) |->
                (IF i > 1 THEN <<"\n">> ELSE <<>>) \o <<"Previous: ">> \o recent[i]])

_build_context(query, docs, conversation_history) ==
  IF docs = <<>>
  THEN <<TextPart(<<"Query: ">> \o query
                  \o <<"\n\n", NothingFoundSentence, " ", GeneralResponseInstruction>>)>>
  ELSE LET context == build_context(query, docs)
       IN IF conversation_history # <<>>
          THEN <<TextPart(<<"Recent conversation:\n">>
                          \o RecentContext(conversation_history) \o <<"\n\n">>)>>
               \o context
          ELSE context

Histories == { <<>>, << <<"ira">> >>, << <<"ira">>, <<"bonds">>, <<"401k">> >> }

\* ----- FinanceQAAgent.execute -----
\* "keyword in query_lower" is a substring test: a one-word keyword is also
\* found inside a longer word of the query
SubstringPairs == { <<"stock", "stocks">>, <<"bond", "bonds">>, <<"etf", "etfs">> }

KeywordIn(keyword, text) ==
  \/ InText(keyword, text)
  \/ Len(keyword) = 1 /\ \E i \in 1..Len(text) : <<keyword[1], text[i]>> \in SubstringPairs

AnyKeywordIn(keywords, text) == \E i \in 1..Len(keywords) : KeywordIn(keywords[i], text)

\* _assess_complexity
advanced_terms ==
  << <<"derivatives">>, <<"options">>, <<"futures">>, <<"hedge", " ", "fund">>,
     <<"private", " ", "equity">>, <<"arbitrage">>, <<"alpha">>, <<"beta">>,
     <<"sharpe", " ", "ratio">>, <<"modern", " ", "portfolio", " ", "theory">> >>
intermediate_terms ==
  << <<"asset", " ", "allocation">>, <<"rebalancing">>, <<"expense", " ", "ratio">>,
     <<"dividend", " ", "yield">>, <<"pe", " ", "ratio">>, <<"market", " ", "cap">>,
     <<"volatility">>, <<"correlation">> >>

_assess_complexity(query) ==
  IF AnyKeywordIn(advanced_terms, Lower(query)) THEN "advanced"
  ELSE IF AnyKeywordIn(intermediate_terms, Lower(query)) THEN "intermediate"
  ELSE "basic"

\* the categories of _classify_query, in the order of the dict
categories ==
  << [category |-> "basic_concepts",
      keywords |-> << <<"what", " ", "is">>, <<"define">>, <<"explain">>,
                      <<"how", " ", "does">>, <<"meaning">> >>],
     [category |-> "investment_education",
      keywords |-> << <<"investing">>, <<"stocks">>, <<"bonds">>, <<"etf">>,
                      <<"mutual", " ", "fund">>, <<"diversification">> >>],
     [category |-> "retirement_planning",
      keywords |-> << <<"retirement">>, <<"401k">>, <<"ira">>, <<"pension">>,
                      <<"social", " ", "security">> >>],
     [category |-> "risk_management",
      keywords |-> << <<"risk">>, <<"volatility">>, <<"hedge">>, <<"insurance">>,
                      <<"emergency", " ", "fund">> >>],
     [category |-> "market_education",
      keywords |-> << <<"market">>, <<"economy">>, <<"inflation">>, <<"recession">>,
                      <<"bull", " ", "market">>, <<"bear", " ", "market">> >>],
     [category |-> "financial_planning",
      keywords |-> << <<"budget">>, <<"save">>, <<"plan">>, <<"goal">>, <<"debt">>,
                      <<"credit">> >>] >>

CategoryScore(g, query_lower) ==
  Cardinality({i \in 1..Len(categories[g].keywords) :
                 KeywordIn(categories[g].keywords[i], query_lower)})

\* _classify_query: the first category of highest positive score
_classify_query(query) ==
  LET query_lower == Lower(query)
      scored == {g \in 1..Len(categories) : CategoryScore(g, query_lower) > 0}
  IN [primary_category |->
        IF scored = {} THEN "general"
        ELSE categories[CHOOSE g \in scored : \A h \in scored :
                          \/ CategoryScore(g, query_lower) > CategoryScore(h, query_lower)
                          \/ CategoryScore(g, query_lower) = CategoryScore(h, query_lower)
                             /\ g <= h].category,
      complexity |-> _assess_complexity(query)]

\* _extract_sources_from_context: the lines that start with '[Source' and
\* contain ']:'.  The line of a source tag is
\* "[Source n: <source> - Relevance: <score>]", which contains ']:' only
\* when the source name does; the text after ']:' is then taken.  No other
\* line of a context of this model starts with '[Source'.
MarkedSources == {"Ref]: X"}
AfterMarker(part) == <<"X - Relevance: ", part.score, "]">>

RECURSIVE _extract_sources_from_context(_)
_extract_sources_from_context(context) ==
  IF context = <<>> THEN <<>>
  ELSE LET rest == _extract_sources_from_context(SubSeq(context, 1, Len(context) - 1))
           part == context[Len(context)]
       IN IF part.kind = "tag" /\ part.source \in MarkedSources
             /\ ~\E i \in 1..Len(rest) : rest[i] = AfterMarker(part)
          THEN Append(rest, AfterMarker(part))
          ELSE rest

\* what self.llm.invoke does: it raises, or returns one of two texts
LlmOutcomes == {"raises", "short", "long"}
LlmReply(llm) ==
  IF llm = "short" THEN <<"<f40>">> ELSE <<"<f300>", " ", "disclaimer">>

\* _calculate_confidence, in hundredths
_calculate_confidence(sources, response) ==
  Min(50
      + (IF sources # <<>> THEN Min(Len(sources) * 15, 30) ELSE 0)
      + (IF \E w \in {"disclaimer", "not advice", "consult", "professional"} :
              InText(<<w>>, Lower(response))
         THEN 10 ELSE 0)
      + (IF TextLen(response) > 200 THEN 10 ELSE 0),
      100)

ApologyText ==
  "I apologize, but I'm having trouble processing your question right now. Please try rephrasing your question or contact support if the issue persists."

\* _generate_response: its own try/except turns a failing llm into an apology
_generate_response(context, llm) ==
  IF llm = "raises"
  THEN [content |-> <<ApologyText>>, sources |-> <<>>, confidence |-> 0]
  ELSE LET sources == _extract_sources_from_context(context)
           response_text == LlmReply(llm)
       IN [content |-> response_text, sources |-> sources,
           confidence |-> _calculate_confidence(sources, response_text)]

\* _suggest_next_agent; "<None>" for None
_suggest_next_agent(query, category) ==
  LET q == Lower(query)
      has(words) == \E w \in words : KeywordIn(<<w>>, q)
  IN IF category = "retirement_planning" THEN "goal_agent"
     ELSE IF category = "investment_education" /\ has({"portfolio", "allocation"})
       THEN "portfolio_agent"
     ELSE IF category = "market_education" \/ has({"price", "analysis", "performance"})
       THEN "market_agent"
     ELSE IF has({"portfolio", "allocation", "balance", "diversification"})
       THEN "portfolio_agent"
     ELSE IF has({"goal", "target", "plan", "timeline", "save"}) THEN "goal_agent"
     ELSE IF has({"market", "price", "stock", "analysis", "performance"})
       THEN "market_agent"
     ELSE "<None>"

ErrorPrefix == "I encountered an issue while processing your request. Error context: "

\* BaseFinanceAgent.handle_error
handle_error(error, context) ==
  [agent_response |-> <<ErrorPrefix, context>>,
   sources |-> <<>>,
   confidence |-> 0,
   agent_name |-> "finance_qa",
   timestamp |-> "now",
   next_agent |-> "<None>",
   updated_context |-> [error |-> error, context |-> context]]

\* "{i}. {source}\n" for each source, after the heading
RECURSIVE SourceLines(_, _)
SourceLines(sources, i) ==
  IF i > Len(sources) THEN <<>>
  ELSE <<i, ". ">> \o sources[i] \o <<"\n">> \o SourceLines(sources, i + 1)

\* BaseFinanceAgent.format_response
format_response(content, sources, confidence) ==
  [agent_response |-> IF sources # <<>>
                      THEN content \o <<"\n\n**Sources:**\n">> \o SourceLines(sources, 1)
                      ELSE content,
   sources |-> sources,
   confidence |-> confidence,
   agent_name |-> "finance_qa",
   timestamp |-> "now",
   next_agent |-> "<None>",
   updated_context |-> <<>>]

\* the k of the retrieve call of execute
AdvancedK == 5
BasicK == 3
AgentK(query) == IF _assess_complexity(query) = "advanced" THEN AdvancedK ELSE BasicK

\* the try block of execute, lines 53-92
ExecuteBody(ix, docs, meta, model, seed, query, conversation_history, llm) ==
  LET query_classification == _classify_query(query)
      retrieved_docs == retrieve(ix, docs, meta, model, seed, query, AgentK(query), TRUE)
  IN IF retrieved_docs.raised THEN retrieved_docs
     ELSE LET context == _build_context(query, retrieved_docs.value, conversation_history)
              response == _generate_response(context, llm)
              formatted == format_response(response.content, response.sources,
                                           response.confidence)
          IN Returned([formatted EXCEPT
                         !.next_agent =
                           _suggest_next_agent(query, query_classification.primary_category),
                         !.updated_context =
                           [last_query_type |-> query_classification.primary_category,
                            complexity_level |-> query_classification.complexity]])

\* variant of execute without the except clause
execute_propagating(ix, docs, meta, model, seed, query, conversation_history, llm) ==
  ExecuteBody(ix, docs, meta, model, seed, query, conversation_history, llm)

\* FinanceQAAgent.execute: an exception of the try block becomes the
\* response of handle_error
execute(ix, docs, meta, model, seed, query, conversation_history, llm) ==
  LET body == ExecuteBody(ix, docs, meta, model, seed, query, conversation_history, llm)
  IN IF body.raised THEN Returned(handle_error(body.error, "query_processing"))
     ELSE body

\* results as retrieve returns them, handed to build_context
ResultOf(content, score, source) ==
  [content |-> content, score |-> score, source |-> source,
   metadata |-> [source |-> source, category |-> "general",
                 chunk_id |-> <<source, 0>>, original_doc_id |-> "unknown"]]

ResultKinds ==
  { ResultOf(<<"budget">>, 80, "B"),
    ResultOf(<<"<f40>", " ", "401k", " ", "ira">>, 84, "B"),
    ResultOf(<<"<f40>", " ", "bonds", " ", "ira">>, 96, "A"),
    ResultOf(<<"<f300>", " ", "stocks">>, 60, "C") }

RECURSIVE ListsUpTo(_, _)
ListsUpTo(S, n) ==
  IF n = 0 THEN {<<>>}
  ELSE LET shorter == ListsUpTo(S, n - 1)
       IN shorter \cup {Append(l, x) : l \in {m \in shorter : Len(m) = n - 1}, x \in S}

RankedLists == ListsUpTo(ResultKinds, MaxResults)

\* FinanceRetriever.build_context(query, retrieved_docs)
BuildContext(query, retrieved_docs) ==
  /\ ret' = [op |-> "build_context",
             args |-> [query |-> query, k |-> 0, filter |-> NoFilter,
                       enhance |-> FALSE, docs |-> retrieved_docs],
             raised |-> FALSE, error |-> "",
             value |-> build_context(query, retrieved_docs),
             chunks |-> 0, produced |-> 0, seen |-> NoneSeen]
  /\ ReadsStore
  /\ UNCHANGED <<embeddings, hashSeed, disk, faults, restarts, adding>>

\* FinanceQAAgent._build_context(query, docs, state)
AgentBuildContext(query, docs, conversation_history) ==
  /\ ret' = [op |-> "_build_context",
             args |-> [query |-> query, k |-> 0, filter |-> NoFilter,
                       enhance |-> FALSE, docs |-> docs,
                       conversation_history |-> conversation_history],
             raised |-> FALSE, error |-> "",
             value |-> _build_context(query, docs, conversation_history),
             chunks |-> 0, produced |-> 0, seen |-> NoneSeen]
  /\ UNCHANGED <<index, documents, metadata, embeddings, hashSeed, disk, faults, restarts,
                 adding>>

\* six candidates in similarity order: four of source A with scores 0.95,
\* 0.93, 0.91, 0.89, two of source B with scores 0.85, 0.80
ScenarioScores == <<95, 93, 91, 89, 85, 80>>
ScenarioSources == <<"A", "A", "A", "A", "B", "B">>

\* contents of 43, 44, 484 and 521 characters
ScenarioContents ==
  { <<"<f40>", "ira">>, <<"<f40>", "401k">>,
    <<"<f480>", " ", "ira">>, <<"<f480>", " ", "<f40>">> }

ScenarioCandidates(contents) ==
  [p \in 1..6 |-> ResultOf(contents[p], ScenarioScores[p], ScenarioSources[p])]

\* FinanceRetriever._rerank_results(candidates, original_query, k)
Rerank(candidates, k) ==
  /\ ret' = [op |-> "_rerank_results",
             args |-> [query |-> <<>>, k |-> k, filter |-> NoFilter,
                       enhance |-> FALSE, docs |-> candidates],
             raised |-> FALSE, error |-> "",
             value |-> _rerank_results(candidates, k),
             chunks |-> 0, produced |-> 0, seen |-> NoneSeen]
  /\ UNCHANGED <<index, documents, metadata, embeddings, hashSeed, disk, faults, restarts,
                 adding>>

\* the states handed to execute: basic and advanced questions, without and
\* with conversation history
AgentStates ==
  [user_query : Queries \cup { <<"alpha">> },
   conversation_history : { <<>>, << <<"ira">> >> }]

\* FinanceQAAgent.execute(state)
Execute(query, conversation_history, llm) ==
  /\ ret' = Called("execute",
                   [query |-> query, k |-> AgentK(query), filter |-> NoFilter,
                    enhance |-> TRUE, conversation_history |-> conversation_history,
                    llm |-> llm],
                   execute(index, documents, metadata, embeddings, hashSeed,
                           query, conversation_history, llm))
  /\ UNCHANGED <<index, documents, metadata, embeddings, hashSeed, disk, faults, restarts,
                 adding>>

\* the embedding calls of one add_documents that may fail: any of the batch
\* calls, and any of the single-item calls made for a failed batch
BatchNumbers(model, n) == {b \in 0..n : b * BatchSize(model) < n}
RetriedItems(model, n, failBatch) ==
  {p \in 1..n : ((p - 1) \div BatchSize(model)) \in failBatch}

Ingest ==
  \E newdocs \in DocLists :
    \E failBatch \in SUBSET BatchNumbers(embeddings, Len(Chunks(newdocs))) :
      \E failItem \in SUBSET RetriedItems(embeddings, Len(Chunks(newdocs)), failBatch) :
        \E outcome \in SaveOutcomes :
          AddDocuments(newdocs, failBatch, failItem, outcome)

Restart == \E model \in Models, seed \in HashSeeds : Construct(model, seed)

Damage == \E a \in ArtifactNames, how \in {Missing, Corrupt} : DamageArtifact(a, how)

Search ==
  \/ \E q \in Queries, k \in Ks : SimilaritySearch(q, k, NoFilter)
  \/ \E q \in Queries, k \in Ks, e \in BOOLEAN : Retrieve(q, k, e)
  \/ \E q \in Queries, k \in Ks, c \in Categories : RetrieveByCategory(q, c, k)

Next == Ingest \/ Restart \/ Damage \/ Search

Spec == Init /\ [][Next]_vars

\* one process that starts on an empty index_path: ingestion and queries
NextIngest == Ingest \/ Search

SpecIngest == Init /\ [][NextIngest]_vars

\* the vector store alone across process restarts: the embedding model may
\* change between two processes, the hash seed of the interpreter is kept
Reopen == \E model \in Models : Construct(model, hashSeed)

StoreSearch == \E q \in Queries, k \in Ks : SimilaritySearch(q, k, NoFilter)

NextStore == Ingest \/ Reopen \/ StoreSearch

SpecStore == Init /\ [][NextStore]_vars

\* context assembly on any ranked list; build_context reads no field of the
\* retriever or the store, so one call covers the calls of every behaviour
Assemble ==
  /\ ret.op = "construct"
  /\ \E q \in Queries, docs \in RankedLists : BuildContext(q, docs)

AgentAssemble ==
  /\ ret.op = "construct"
  /\ \E q \in Queries, docs \in RankedLists, h \in Histories :
       AgentBuildContext(q, docs, h)

NextContext == Assemble \/ AgentAssemble

SpecContext == Init /\ [][NextContext]_vars

\* reranking of the six candidates, for every choice of their contents;
\* _rerank_results reads no field of the retriever
RerankScenario ==
  /\ ret.op = "construct"
  /\ \E contents \in [1..6 -> ScenarioContents], k \in 1..3 :
       Rerank(ScenarioCandidates(contents), k)

NextRerank == RerankScenario

SpecRerank == Init /\ [][NextRerank]_vars

\* ingestion from a provider that returns an all-zero embedding for a text
IngestAny ==
  \E newdocs \in DocLists \cup {<<DocZ>>} :
    \E failBatch \in SUBSET BatchNumbers(embeddings, Len(Chunks(newdocs))) :
      \E failItem \in SUBSET RetriedItems(embeddings, Len(Chunks(newdocs)), failBatch) :
        \E outcome \in SaveOutcomes :
          AddDocuments(newdocs, failBatch, failItem, outcome)

NextProvider == IngestAny \/ Reopen \/ StoreSearch

SpecProvider == Init /\ [][NextProvider]_vars

\* the first add_documents on an empty store, with whole document lists
IngestScenario ==
  /\ index.isNone /\ documents = <<>> /\ metadata = <<>>
  /\ \E newdocs \in ScenarioDocLists :
       \E failBatch \in SUBSET BatchNumbers(embeddings, Len(Chunks(newdocs))) :
         \E failItem \in SUBSET RetriedItems(embeddings, Len(Chunks(newdocs)), failBatch) :
           \E outcome \in SaveOutcomes :
             AddDocumentsCall(newdocs, failBatch, failItem, outcome,
                              NoArgs @@ [docs |-> newdocs])

NextScenario == IngestScenario \/ StoreSearch

\* the first add_documents on an empty store with more chunks than one batch,
\* whose save succeeds
IngestBatches ==
  /\ index.isNone /\ documents = <<>> /\ metadata = <<>>
  /\ \E failBatch \in SUBSET BatchNumbers(embeddings, Len(Chunks(BatchDocs))) :
       \E failItem \in SUBSET RetriedItems(embeddings, Len(Chunks(BatchDocs)), failBatch) :
         AddDocumentsCall(BatchDocs, failBatch, failItem, [failAt |-> 0],
                          NoArgs @@ [docs |-> BatchDocs, failBatch |-> failBatch,
                                     failItem |-> failItem,
                                     calls |-> EmbedCalls(embeddings, Len(Chunks(BatchDocs)),
                                                          0, failBatch)])

NextBatches == IngestBatches \/ StoreSearch

SpecBatches == Init /\ [][NextBatches]_vars

SpecScenario == Init /\ [][NextScenario]_vars

\* the question-answering agent on a store that is filled, saved and reopened
Ask ==
  \E state \in AgentStates, llm \in LlmOutcomes :
    Execute(state.user_query, state.conversation_history, llm)

\* add_documents whose _save_index writes every artifact
IngestSaved ==
  \E newdocs \in DocLists :
    \E failBatch \in SUBSET BatchNumbers(embeddings, Len(Chunks(newdocs))) :
      \E failItem \in SUBSET RetriedItems(embeddings, Len(Chunks(newdocs)), failBatch) :
        AddDocuments(newdocs, failBatch, failItem, [failAt |-> 0])

NextAgent == IngestSaved \/ Reopen \/ Ask

SpecAgent == Init /\ [][NextAgent]_vars

\* build_context on what retrieve returned, as the callers use it
Contextualize ==
  \E q \in Queries, k \in Ks :
    \E r \in {retrieve(index, documents, metadata, embeddings, hashSeed, q, k, TRUE)} :
      /\ ~r.raised
      /\ BuildContext(q, r.value)

\* one process that ingests, searches and builds contexts; a failing save
\* changes no field of the store, so the saves succeed here
NextReaders == IngestSaved \/ Search \/ Contextualize

SpecReaders == Init /\ [][NextReaders]_vars

\* a store that holds two sources of one category, and searches by category
IngestCategory ==
  \E newdocs \in { <<DocA>>, <<DocC>> } :
    \E failBatch \in SUBSET BatchNumbers(embeddings, Len(Chunks(newdocs))) :
      \E failItem \in SUBSET RetriedItems(embeddings, Len(Chunks(newdocs)), failBatch) :
        /\ Len(documents) + Len(Chunks(newdocs)) <= MaxEntries + 1
        /\ AddDocumentsCall(newdocs, failBatch, failItem, [failAt |-> 0],
                            NoArgs @@ [docs |-> newdocs, failBatch |-> failBatch,
                                       failItem |-> failItem])

CategorySearch ==
  \E q \in Queries, k \in Ks, c \in {"retirement", "general"} : RetrieveByCategory(q, c, k)

NextCategory == IngestCategory \/ CategorySearch

SpecCategory == Init /\ [][NextCategory]_vars

\* query enhancement on queries of one or two words, in processes of either
\* hash seed
EnhanceWords == {"stocks", "Stocks", "IRA", "ira", "401k", "budget", "ETFs", "pension"}
EnhanceQueries ==
  { <<w>> : w \in EnhanceWords } \cup { <<w, " ", v>> : w, v \in EnhanceWords }

Enhance == \E q \in EnhanceQueries, e \in BOOLEAN : EnhanceQuery(q, e)

NextEnhance == Restart \/ Enhance

SpecEnhance == Init /\ [][NextEnhance]_vars

\* runs of the build script on one index_path, and searches in the process
\* of the last run
Rebuild ==
  \E articles \in DocLists, model \in Models, seed \in HashSeeds :
    \E failBatch \in SUBSET BatchNumbers(model, Len(Chunks(articles))) :
      \E failItem \in SUBSET RetriedItems(model, Len(Chunks(articles)), failBatch) :
        \E outcome \in SaveOutcomes :
          BuildVectorDatabase(articles, model, seed, failBatch, failItem, outcome)

NextRebuild == Rebuild \/ StoreSearch

SpecRebuild == Init /\ [][NextRebuild]_vars

\* ----- add_documents in one thread, similarity_search in another -----
\* add_documents writes the fields of the store at four places: line 170
\* (self.index = ...), 176 (index.add), 179 (documents.extend) and 180
\* (metadata.extend); no lock is taken, so another thread runs between any
\* two of them.  `adding.r` is what the call computes from the store it
\* started on, `adding.pc` the last write it has made.

\* lines 115-170: chunking, embedding, and the creation of the index
BeginAdd(newdocs, failBatch, failItem) ==
  /\ adding.pc = "idle"
  /\ Len(documents) + Len(Chunks(newdocs)) <= MaxEntries
  /\ Len(index.vecs) + Len(Chunks(newdocs)) <= MaxEntries
  /\ \E r \in {add_documents(index, documents, metadata, embeddings,
                             newdocs, failBatch, failItem)} :
       IF r.produced = 0
       THEN /\ ret' = [op |-> "add_documents", args |-> NoArgs, raised |-> FALSE,
                       error |-> "", value |-> <<>>, chunks |-> Len(Chunks(newdocs)),
                       produced |-> 0, seen |-> NoneSeen]
            /\ UNCHANGED <<index, adding>>
       ELSE /\ index' = IF index.isNone THEN IndexFlatIP(r.index.d) ELSE index
            /\ adding' = [pc |-> "created", r |-> r, chunks |-> Len(Chunks(newdocs))]
            /\ UNCHANGED ret
  /\ UNCHANGED <<documents, metadata, embeddings, hashSeed, disk, faults, restarts>>

\* line 176: index.add raises for rows of another dimension
AddRows ==
  /\ adding.pc = "created"
  /\ IF adding.r.raised
     THEN /\ ret' = [op |-> "add_documents", args |-> NoArgs, raised |-> TRUE,
                     error |-> adding.r.error, value |-> <<>>,
                     chunks |-> adding.chunks, produced |-> adding.r.produced,
                     seen |-> NoneSeen]
          /\ adding' = NoAdd
          /\ UNCHANGED index
     ELSE /\ index' = adding.r.index
          /\ adding' = [adding EXCEPT !.pc = "indexed"]
          /\ UNCHANGED ret
  /\ UNCHANGED <<documents, metadata, embeddings, hashSeed, disk, faults, restarts>>

\* line 179
ExtendDocuments ==
  /\ adding.pc = "indexed"
  /\ documents' = adding.r.documents
  /\ adding' = [adding EXCEPT !.pc = "extended"]
  /\ UNCHANGED <<index, metadata, embeddings, hashSeed, disk, ret, faults, restarts>>

\* lines 180-185: metadata.extend and _save_index
FinishAdd(outcome) ==
  /\ adding.pc = "extended"
  /\ outcome.failAt # 0 => faults < MaxFaults
  /\ metadata' = adding.r.metadata
  /\ disk' = _save_index(disk, index, documents, adding.r.metadata, outcome)
  /\ faults' = IF outcome.failAt # 0 THEN faults + 1 ELSE faults
  /\ ret' = [op |-> "add_documents", args |-> NoArgs,
             raised |-> outcome.failAt # 0,
             error |-> IF outcome.failAt # 0 THEN "OSError" ELSE "",
             value |-> <<>>, chunks |-> adding.chunks,
             produced |-> adding.r.produced, seen |-> NoneSeen]
  /\ adding' = NoAdd
  /\ UNCHANGED <<index, documents, embeddings, hashSeed, restarts>>

Writer ==
  \/ \E newdocs \in DocLists :
       \E failBatch \in SUBSET BatchNumbers(embeddings, Len(Chunks(newdocs))) :
         \E failItem \in SUBSET RetriedItems(embeddings, Len(Chunks(newdocs)), failBatch) :
           BeginAdd(newdocs, failBatch, failItem)
  \/ AddRows
  \/ ExtendDocuments
  \/ \E outcome \in SaveOutcomes : FinishAdd(outcome)

NextThreads == Writer \/ StoreSearch

SpecThreads == Init /\ [][NextThreads]_vars

\* ======================= claims =======================

SearchOps == {"similarity_search", "retrieve", "retrieve_by_category"}

Aligned == Len(index.vecs) = Len(documents) /\ Len(documents) = Len(metadata)

StoreIsEmpty == index.isNone /\ documents = <<>> /\ metadata = <<>>

\* C1: in every state reached from the empty store by add_documents calls,
\* whichever embedding calls fail, the index holds as many vectors as there
\* are documents and as there are metadata entries.
C1_Alignment == Aligned

C1_Witness ==
  /\ ret.op = "add_documents"
  /\ ~ret.raised
  /\ 0 < ret.produced /\ ret.produced < ret.chunks
  /\ Len(documents) >= 1

\* the documents of the model and the metadata add_documents synthesizes
\* for the chunk with the given text (chunk texts are distinct)
AllDocs == {DocA, DocB}
SynthesizedFor(text) ==
  CHOOSE m \in {DocChunkMeta(d, i) : d \in AllDocs, i \in 1..3} :
    \E d \in AllDocs : \E i \in 1..Len(DocChunks(d)) :
      DocChunks(d)[i] = text /\ m = DocChunkMeta(d, i)

\* C2: at every position the vector is the embedding of the text stored at
\* that position and the metadata is the one synthesized for that chunk.
C2_PositionsPaired ==
  \A i \in 1..Len(index.vecs) :
    /\ i <= Len(documents) /\ i <= Len(metadata)
    /\ index.vecs[i] = normalize_L2(Embed(embeddings, documents[i]))
    /\ metadata[i] = SynthesizedFor(documents[i])

\* C3: after add_documents has returned normally, a new store constructed on
\* the same index_path has the same vectors, documents and metadata, and
\* answers every similarity_search as the running store does.
C3_ReloadReproduces ==
  (ret.op = "add_documents" /\ ~ret.raised) =>
    LET st == _load_index(disk)
    IN /\ st.index = index
       /\ st.documents = documents
       /\ st.metadata = metadata
       /\ \A q \in Queries, k \in Ks :
            similarity_search(st.index, st.documents, st.metadata, embeddings,
                              q, k, NoFilter)
            = similarity_search(index, documents, metadata, embeddings,
                                q, k, NoFilter)

\* C4: a store constructed while exactly one artifact is missing or
\* unreadable and the other two are present is empty, and the constructor
\* does not raise.
C4_DamagedLoadIsEmpty ==
  (/\ ret.op = "construct"
   /\ Cardinality({a \in ArtifactNames : ret.seen.st[a] # "ok"}) = 1)
  => (~ret.raised /\ StoreIsEmpty)

\* C5: a store constructed from three readable artifacts that disagree in
\* length is empty.
C5_MisalignedLoadIsEmpty ==
  (/\ ret.op = "construct"
   /\ \A a \in ArtifactNames : ret.seen.st[a] = "ok"
   /\ \E a, b \in ArtifactNames : ret.seen.len[a] # ret.seen.len[b])
  => StoreIsEmpty

Injective(f) == \A i, j \in DOMAIN f : f[i] = f[j] => i = j

\* C6: similarity_search without category filter on n >= 1 entries returns
\* min(k, n) results, each a distinct stored entry with its inner-product
\* score, in non-increasing score order, and no entry left out scores higher
\* than a returned one.
C6_TopK ==
  (/\ ret.op = "similarity_search" /\ ret.args.filter = NoFilter
   /\ ~index.isNone /\ Aligned /\ Len(documents) >= 1
   /\ index.d = Dimension(embeddings))
  => LET n == Len(documents)
         res == ret.value
         qv == normalize_L2(Embed(embeddings, ret.args.query))
     IN /\ ~ret.raised
        /\ Len(res) = Min(ret.args.k, n)
        /\ \E f \in [1..Len(res) -> 1..n] :
             /\ Injective(f)
             /\ \A i \in 1..Len(res) :
                  /\ res[i].content = documents[f[i]]
                  /\ res[i].metadata = metadata[f[i]]
                  /\ res[i].score = Dot(index.vecs[f[i]], qv)
             /\ \A i \in 1..Len(res) : \A j \in 1..n :
                  (\A h \in 1..Len(res) : f[h] # j)
                  => Dot(index.vecs[j], qv) <= res[i].score
        /\ \A i \in 1..(Len(res) - 1) : res[i].score >= res[i + 1].score

\* the composite score of the candidate at position p, in units of
\* 1/CompositeScale: 0.7 * score + 0.2 / (candidates of the same source up to
\* and including p) + 0.1 * min(len(content) / 500, 1)
C7_Composite(cands, p) ==
  LET count == Cardinality({q \in 1..p : cands[q].source = cands[p].source})
      len == TextLen(cands[p].content)
  IN (CompositeScale \div (10 * Unit * Unit)) * 7 * cands[p].score
     + ((CompositeScale \div 10) * 2) \div count
     + (IF len >= 500 THEN CompositeScale \div 10
        ELSE (CompositeScale \div 5000) * len)

\* position p of the candidates ranks before position q
C7_Before(cands, p, q) ==
  \/ C7_Composite(cands, p) > C7_Composite(cands, q)
  \/ C7_Composite(cands, p) = C7_Composite(cands, q) /\ p < q

\* C7: retrieve returns the min(k, number of candidates) candidates of
\* highest composite score in non-increasing composite order, candidates of
\* equal composite score in candidate order.
C7_Rerank ==
  (ret.op = "retrieve" /\ ~ret.raised) =>
    LET q == IF ret.args.enhance THEN _enhance_query(ret.args.query, hashSeed)
             ELSE ret.args.query
        cands == similarity_search(index, documents, metadata, embeddings, q,
                                   CandidateOversample * ret.args.k, NoFilter).value
        res == ret.value
    IN /\ Len(res) = Min(ret.args.k, Len(cands))
       /\ \E f \in [1..Len(res) -> 1..Len(cands)] :
            /\ \A i \in 1..Len(res) :
                 /\ res[i].content = cands[f[i]].content
                 /\ res[i].score = cands[f[i]].score
                 /\ res[i].metadata = cands[f[i]].metadata
                 /\ res[i].source = cands[f[i]].source
                 /\ res[i].rerank_score = C7_Composite(cands, f[i])
            /\ \A i, j \in 1..Len(res) : i < j => C7_Before(cands, f[i], f[j])
            /\ \A i \in 1..Len(res) : \A c \in 1..Len(cands) :
                 (\A h \in 1..Len(res) : f[h] # c) => C7_Before(cands, f[i], c)

\* retrieve has returned results in another order than similarity order
C7_Witness ==
  /\ ret.op = "retrieve" /\ ~ret.raised
  /\ Len(ret.value) >= 2
  /\ ret.value[1].score < ret.value[2].score

\* C8: every result of retrieve_by_category(q, c, k) has category c.
C8_CategoryOnly ==
  (ret.op = "retrieve_by_category" /\ ~ret.raised) =>
    \A i \in 1..Len(ret.value) : ret.value[i].metadata.category = ret.args.filter

\* C9: on a store that holds no vectors the three searches return the empty
\* list and do not raise.
C9_EmptyIndexSafe ==
  (ret.op \in SearchOps /\ index.isNone) => (~ret.raised /\ ret.value = <<>>)

C9_Witness ==
  /\ ret.op = "retrieve" /\ ret.args.enhance
  /\ StoreIsEmpty
  /\ ret.value = <<>>

\* C10: an add_documents that produces embeddings, or a similarity_search,
\* on a store whose index has another dimension than the embedding model
\* raises and leaves index, documents and metadata as they were.
C10_DimensionMismatch ==
  [][(/\ ret'.op \in {"add_documents", "similarity_search"}
      /\ ret'.op = "add_documents" => ret'.produced > 0
      /\ ~index.isNone
      /\ index.d # Dimension(embeddings))
     => (ret'.raised /\ UNCHANGED store)]_vars

C10_Witness ==
  /\ ret.op = "add_documents"
  /\ ret.raised /\ ret.error = "AssertionError"
  /\ ret.produced > 0
  /\ Len(documents) >= 1

\* C11: a similarity_search that runs while an add_documents is in progress
\* reads a store whose index and lists have the same number of entries, does
\* not raise, and returns text and metadata of one and the same position.
\* (While an add is in progress, a step that leaves `adding` as it is is a
\* search; it reads the store of the state it starts in.)
C11_SearchSeesWholeAdds ==
  [][(adding.pc # "idle" /\ adding' = adding /\ ret'.op = "similarity_search")
     => /\ Aligned
        /\ ~ret'.raised
        /\ \A i \in 1..Len(ret'.value) :
             \E p \in 1..Len(documents) :
               /\ p <= Len(metadata)
               /\ ret'.value[i].content = documents[p]
               /\ ret'.value[i].metadata = metadata[p]]_vars

\* the positions of the results whose content has at least 50 characters
SubstantialPositions(docs) == {p \in 1..Len(docs) : TextLen(docs[p].content) >= 50}

\* the j-th smallest element of a set of positions
NthOf(S, j) == CHOOSE p \in S : Cardinality({q \in S : q <= p}) = j

\* C12: for a ranked list with at least one result of 50 or more characters,
\* the context consists of an opening part, then for j = 1..min(5, m) the tag
\* [Source j: source - Relevance: score] of the j-th such result immediately
\* followed by its content, then the closing part, and nothing else.
C12_ContextPassages ==
  (ret.op = "build_context" /\ SubstantialPositions(ret.args.docs) # {}) =>
    LET docs == ret.args.docs
        long == SubstantialPositions(docs)
        cnt == Min(5, Cardinality(long))
        parts == ret.value
    IN /\ Len(parts) = 2 * cnt + 2
       /\ parts[1].kind = "text" /\ parts[Len(parts)].kind = "text"
       /\ \A j \in 1..cnt :
            LET r == docs[NthOf(long, j)]
            IN /\ parts[2 * j].kind = "tag"
               /\ parts[2 * j].n = j
               /\ parts[2 * j].source = r.metadata.source
               /\ parts[2 * j].score * Unit * Unit = 1000 * r.score
               /\ parts[2 * j + 1].kind = "text"
               /\ parts[2 * j + 1].text = r.content

\* a list of six results, the first too short, the other five included
C12_Witness ==
  /\ ret.op = "build_context"
  /\ Len(ret.args.docs) = 6
  /\ SubstantialPositions(ret.args.docs) = 2..6
  /\ Len(ret.value) = 12
  /\ ret.value[10].n = 5

\* the contents of the results of a list
ContentsOf(docs) == {docs[i].content : i \in 1..Len(docs)}

\* C13: for a non-empty ranked list whose results are all shorter than 50
\* characters, the context holds the content of the first min(2, n) results,
\* in order, and the content of no other result.
C13_FallbackTopTwo ==
  (/\ ret.op = "build_context"
   /\ ret.args.docs # <<>>
   /\ SubstantialPositions(ret.args.docs) = {}) =>
    LET docs == ret.args.docs
        cnt == Min(2, Len(docs))
        parts == ret.value
    IN /\ \A i \in 1..cnt : parts[2 + i].kind = "text" /\ parts[2 + i].text = docs[i].content
       /\ \A q \in 1..Len(parts) :
            (parts[q].kind = "text" /\ parts[q].text \in ContentsOf(docs))
            => q \in 3..(2 + cnt)

\* three short results, the third with a content of its own
C13_Witness ==
  /\ ret.op = "build_context"
  /\ Len(ret.args.docs) = 3
  /\ SubstantialPositions(ret.args.docs) = {}
  /\ ret.args.docs[3].content \notin {ret.args.docs[1].content, ret.args.docs[2].content}
  /\ Len(ret.value) = 5

\* a sentence occurs in the text of a context
Says(parts, sentence) ==
  \E q \in 1..Len(parts) : \E t \in 1..Len(parts[q].text) : parts[q].text[t] = sentence

\* C14: for the empty ranked list build_context returns a text that says
\* that nothing relevant was found and that tells the consumer to give a
\* general answer with disclaimers.
C14_EmptySentinel ==
  (ret.op = "build_context" /\ ret.args.docs = <<>>) =>
    /\ Says(ret.value, NothingFoundSentence)
    /\ Says(ret.value, GeneralResponseInstruction)

\* every stored vector is the normalized embedding of the text at its position
StoredAsEmbedded ==
  /\ ~index.isNone /\ Aligned /\ index.d = Dimension(embeddings)
  /\ \A i \in 1..Len(documents) :
       index.vecs[i] = normalize_L2(Embed(embeddings, documents[i]))

\* C15: when the query is the text of a stored chunk, retrieve with query
\* enhancement returns that chunk first, with similarity score 1.0.
C15_SelfSimilarity ==
  (/\ ret.op = "retrieve" /\ ret.args.enhance
   /\ StoredAsEmbedded
   /\ \E i \in 1..Len(documents) : documents[i] = ret.args.query) =>
    /\ ~ret.raised
    /\ Len(ret.value) >= 1
    /\ ret.value[1].content = ret.args.query
    /\ ret.value[1].score = Unit * Unit

\* a result of source B is among the results
IncludesB(results) == \E i \in 1..Len(results) : results[i].source = "B"

\* len(content) as the rerank score counts it: at most 500
Capped(content) == Min(TextLen(content), 500)

\* C16 as stated: reranking the six candidates with k = 3 returns three
\* results, at least one of source B, whatever the content lengths.
C16_DiversityAnyLength ==
  (ret.op = "_rerank_results" /\ ret.args.k = 3) =>
    (Len(ret.value) = 3 /\ IncludesB(ret.value))

\* C16 amended: the same, when the content of the first B candidate is less
\* than 457 characters shorter than the content of the third A candidate,
\* lengths counted up to 500.
C16_DiversityNearLength ==
  (/\ ret.op = "_rerank_results" /\ ret.args.k = 3
   /\ Capped(ret.args.docs[3].content) - Capped(ret.args.docs[5].content) < 457) =>
    (Len(ret.value) = 3 /\ IncludesB(ret.value))

\* the first B candidate is 456 characters shorter than the third A
\* candidate and is returned
C16_Witness ==
  /\ ret.op = "_rerank_results" /\ ret.args.k = 3
  /\ Capped(ret.args.docs[3].content) - Capped(ret.args.docs[5].content) = 456
  /\ IncludesB(ret.value)

\* C17: every stored metadata entry holds all metadata entries of its parent
\* document and the chunk id (source, i) of a chunk i of that document, and
\* every result of retrieve for a document with a title has metadata['title'].
C17_InheritedMetadata ==
  /\ \A i \in 1..Len(metadata) :
       \E d \in AllDocs :
         /\ \A key \in DOMAIN d.metadata :
              key \in DOMAIN metadata[i] /\ metadata[i][key] = d.metadata[key]
         /\ \E j \in 1..Len(DocChunks(d)) :
              metadata[i].chunk_id = <<Get(d.metadata, "source", "unknown"), j - 1>>
  /\ (ret.op = "retrieve" /\ ~ret.raised) =>
       \A r \in 1..Len(ret.value) :
         ret.value[r].metadata.source = "A" => "title" \in DOMAIN ret.value[r].metadata

\* C18: every vector of the index has L2 norm 1 (its squared norm is one
\* unit of the inner product), whatever the provider returned for the text.
C18_UnitNorm ==
  \A i \in 1..Len(index.vecs) : Dot(index.vecs[i], index.vecs[i]) = Unit * Unit

\* the call was add_documents(docs) on an empty store
AddedTo(docs_lengths) ==
  /\ ret.op = "add_documents"
  /\ "docs" \in DOMAIN ret.args
  /\ [d \in 1..Len(ret.args.docs) |-> TextLen(ret.args.docs[d].page_content)] = docs_lengths

\* the entries stored for the d-th document of the call
EntriesOf(d) ==
  Cardinality({i \in 1..Len(metadata) :
                 metadata[i].source = ret.args.docs[d].metadata.source})

\* every word of the text has at most 50 characters and the words are
\* separated by single spaces
WordsOnly(text) ==
  /\ \A i \in 1..Len(text) : text[i] # ParaSep /\ TokLen(text[i]) <= 50
  /\ \A i \in 1..(Len(text) - 1) : ~(text[i] = " " /\ text[i + 1] = " ")

RetrieveRaises ==
  retrieve(index, documents, metadata, embeddings, hashSeed,
           ret.args.query, ret.args.k, TRUE).raised

\* C20: when retrieve raises during execute, execute returns a response
\* with a message, no sources and confidence 0.0; it does not raise.
C20_ExecuteHandlesErrors ==
  (ret.op = "execute" /\ RetrieveRaises) =>
    /\ ~ret.raised
    /\ ret.value.agent_response # <<>>
    /\ ret.value.sources = <<>>
    /\ ret.value.confidence = 0

C20_Witness ==
  /\ ret.op = "execute"
  /\ RetrieveRaises
  /\ ret.value.agent_response = <<ErrorPrefix, "query_processing">>

\* the batch of the chunk at position p, and the chunks that are not dropped:
\* those of a batch whose call succeeds and those whose single-item call succeeds
BatchOf(p) == (p - 1) \div BatchSize(embeddings)

KeptPositions(n, failBatch, failItem) ==
  {p \in 1..n : ~(BatchOf(p) \in failBatch /\ p \in failItem)}

CallsWith(calls, call) == Cardinality({c \in 1..Len(calls) : calls[c] = call})

\* C21: after a batch call that raised, each chunk of the batch is given to
\* exactly one single-item call; the chunks whose single-item call raises
\* too are dropped, the later batches are still embedded, and add_documents
\* does not raise: the index holds the embeddings of the remaining chunks.
C21_BatchRetry ==
  (ret.op = "add_documents" /\ "calls" \in DOMAIN ret.args) =>
    LET chunks == Chunks(ret.args.docs)
        n == Len(chunks)
        kept == KeptPositions(n, ret.args.failBatch, ret.args.failItem)
    IN /\ ~ret.raised
       /\ \A p \in 1..n :
            CallsWith(ret.args.calls, <<p>>) =
              IF BatchOf(p) \in ret.args.failBatch THEN 1 ELSE 0
       /\ ret.produced = Cardinality(kept)
       /\ Len(index.vecs) = Cardinality(kept)
       /\ \A j \in 1..Len(index.vecs) :
            index.vecs[j] = normalize_L2(Embed(embeddings, chunks[NthOf(kept, j)]))

\* the first batch failed with two of its chunks dropped, one of them before
\* a chunk that is kept, and the second batch was embedded
C21_Witness ==
  /\ ret.op = "add_documents" /\ "calls" \in DOMAIN ret.args
  /\ ret.args.failBatch = {0}
  /\ ret.args.failItem = {2, 5}
  /\ Len(index.vecs) = 8

\* the positions of the chunks of the batches in S, of n chunks
PositionsOf(S, n) == {p \in 1..n : BatchOf(p) \in S}

\* C22: every batch contributes all of its chunks or none: after an
\* add_documents on the empty store the three containers hold, in order, the
\* entries of the chunks of some set of whole batches.
C22_BatchAllOrNothing ==
  (ret.op = "add_documents" /\ "calls" \in DOMAIN ret.args) =>
    LET chunks == Chunks(ret.args.docs)
        chunk_metadata == ChunkMetadata(ret.args.docs)
        n == Len(chunks)
    IN \E S \in SUBSET BatchNumbers(embeddings, n) :
         LET whole == PositionsOf(S, n)
         IN /\ Len(index.vecs) = Cardinality(whole)
            /\ Len(documents) = Cardinality(whole)
            /\ Len(metadata) = Cardinality(whole)
            /\ \A j \in 1..Cardinality(whole) :
                 /\ index.vecs[j] = normalize_L2(Embed(embeddings, chunks[NthOf(whole, j)]))
                 /\ documents[j] = chunks[NthOf(whole, j)]
                 /\ metadata[j] = chunk_metadata[NthOf(whole, j)]

Populated == Len(index.vecs) > 0 \/ documents # <<>> \/ metadata # <<>>

\* the three artifacts hold what the store holds
Persisted(dsk, ix, docs, meta) ==
  /\ dsk.faiss = write_index(ix)
  /\ dsk.docs = pickle_dump(docs)
  /\ dsk.meta = pickle_dump(meta)

\* C23: within one store instance an empty store becomes populated only by
\* an add_documents that produced an embedding; an add_documents that returns
\* after adding entries has written the three artifacts; one that produced
\* no embedding changes neither the store nor the artifacts; and no
\* operation empties or shrinks a populated store.
C23_Lifecycle ==
  [][
      /\ (ret'.op # "construct" /\ ~Populated /\ Populated') =>
            (ret'.op = "add_documents" /\ ret'.produced > 0)
      /\ (ret'.op # "construct" /\ Populated) =>
            /\ Len(index'.vecs) >= Len(index.vecs)
            /\ Len(documents') >= Len(documents)
            /\ Len(metadata') >= Len(metadata)
      /\ (ret'.op = "add_documents" /\ ~ret'.raised /\ store' # store) =>
            Persisted(disk', index', documents', metadata')
      /\ (ret'.op = "add_documents" /\ ret'.produced = 0) =>
            UNCHANGED <<index, documents, metadata, disk>>
    ]_vars

\* an add_documents returned after adding to a store that a failed save had
\* left ahead of its artifacts
C23_Witness ==
  /\ ret.op = "add_documents" /\ ~ret.raised /\ ret.produced > 0
  /\ faults > 0
  /\ Len(documents) > ret.produced
  /\ Persisted(disk, index, documents, metadata)

ReadOps == {"similarity_search", "retrieve", "retrieve_by_category", "build_context"}

\* C24: a step of similarity_search, retrieve, retrieve_by_category or
\* build_context leaves the index, the documents list and the metadata list
\* as they were, and a step that changes one of them is an add_documents or a
\* construction.
C24_ReadsLeaveStore ==
  [][
      /\ ret'.op \in ReadOps => store' = store
      /\ store' # store => ret'.op \in {"add_documents", "construct"}
    ]_vars

\* a context was built from the results that retrieve returned on a store of
\* two or more entries
C24_Witness ==
  /\ ret.op = "build_context"
  /\ ret.args.docs # <<>>
  /\ Len(documents) >= 2

\* C25: retrieve_by_category returns at most k results of the category in
\* non-increasing composite-score order (the composite of retrieve, computed
\* on the matching candidates in similarity order), and does not raise when
\* fewer than k candidates match.
C25_CategoryReranked ==
  (ret.op = "retrieve_by_category" /\ Aligned) =>
    /\ ~ret.raised
    /\ Len(ret.value) <= ret.args.k
    /\ \A i \in 1..Len(ret.value) : ret.value[i].metadata.category = ret.args.filter
    /\ \A i \in 1..Len(ret.value) : \A j \in (i + 1)..Len(ret.value) :
         C7_Composite(ret.value, i) >= C7_Composite(ret.value, j)

\* the keyword occurs in the query in some letter case
ContainsAnyCase(keyword, query) == InText(Lower(keyword), Lower(query))

\* C26: with enhancement, a query that contains a keyword of a group in any
\* letter case is embedded as the query followed by a space and terms among
\* which are the related terms of that group, and a query without any
\* keyword is embedded as it is; without enhancement the query is embedded
\* as it is.
C26_Enhancement ==
  ret.op = "enhanced_query" =>
    LET query == ret.args.query
        text == ret.value
        appended == SubSeq(text, Len(query) + 1, Len(text))
    IN IF ~ret.args.enhance THEN text = query
       ELSE /\ (\A g \in 1..Len(domain_keywords) :
                  \A i \in 1..Len(domain_keywords[g].keywords) :
                    ~ContainsAnyCase(domain_keywords[g].keywords[i], query))
                 => text = query
            /\ \A g \in 1..Len(domain_keywords) :
                 (\E i \in 1..Len(domain_keywords[g].keywords) :
                    ContainsAnyCase(domain_keywords[g].keywords[i], query))
                 => /\ Len(text) > Len(query) + 1
                    /\ SubSeq(text, 1, Len(query) + 1) = query \o <<" ">>
                    /\ \A j \in 1..KeywordsTaken :
                         InText(domain_keywords[g].keywords[j], appended)

\* the context that execute builds for its query on this store
ExecuteContext ==
  _build_context(ret.args.query,
                 retrieve(index, documents, metadata, embeddings, hashSeed,
                          ret.args.query, ret.args.k, TRUE).value,
                 ret.args.conversation_history)

\* C27: when the context of execute holds attribution tags and the llm
\* answered, the sources of the response are not empty and name the source
\* of every tag.
C27_SourcesExtracted ==
  (ret.op = "execute" /\ ret.args.llm # "raises" /\ ~RetrieveRaises) =>
    LET context == ExecuteContext
        tags == {p \in 1..Len(context) : context[p].kind = "tag"}
    IN tags # {} =>
         /\ ret.value.sources # <<>>
         /\ \A p \in tags : \E i \in 1..Len(ret.value.sources) :
              ret.value.sources[i] = context[p].source

\* C28: an add_documents that raises, whatever raised, leaves the index,
\* the documents list and the metadata list as they were before the call.
C28_RaisingAddIsNotApplied ==
  [][(ret'.op = "add_documents" /\ ret'.raised) => store' = store]_vars

\* a run of the build script in which every embedding call and every write
\* succeeded
CleanBuild(r) ==
  /\ r.op = "build_vector_database"
  /\ r.value
  /\ r.args.failBatch = {}
  /\ r.args.outcome.failAt = 0

\* C29: a second complete run of build_vector_database on the same articles,
\* with the same embedding model and index_path, leaves the artifacts as the
\* first run wrote them.
C29_RebuildReplaces ==
  [][(/\ CleanBuild(ret) /\ CleanBuild(ret')
      /\ ret'.args.docs = ret.args.docs
      /\ embeddings' = embeddings
      /\ Persisted(disk, index, documents, metadata))
     => disk' = disk]_vars

\* C30: the text that retrieve embeds, and with it the ranked list that
\* retrieve returns on the same store, is the same in a process of any hash
\* seed.
C30_EnhancementDeterministic ==
  /\ ret.op = "enhanced_query" =>
       \A seed \in HashSeeds :
         enhanced_query(ret.args.query, ret.args.enhance, seed) = ret.value
  /\ (ret.op = "retrieve" /\ ~ret.raised) =>
       \A seed \in HashSeeds :
         retrieve(index, documents, metadata, embeddings, seed,
                  ret.args.query, ret.args.k, ret.args.enhance).value = ret.value

====
